---- MODULE Spec2Model ----
(***************************************************************************)
(* WinLocalProcessSpawner.start() and PopenAsUser.do_execute_child():      *)
(* one launch of a single-user server under a Windows authentication       *)
(* token, as a state machine.  Every OS call the code makes is a step      *)
(* whose outcome (a value, or an exception) is drawn from the outcomes the *)
(* call can have.                                                          *)
(***************************************************************************)
EXTENDS Integers, Sequences, FiniteSets, TLC

None == "None"

\* An empty dict.  A user_env of None and an empty one are told apart
\* nowhere in the code (both are falsy at every use), so None is EmptyEnv.
EmptyEnv == [k \in {} |-> ""]

\* dict.update(): the keys of u override those of e.
Update(e, u) == [k \in (DOMAIN e) \cup (DOMAIN u) |-> IF k \in DOMAIN u THEN u[k] ELSE e[k]]

\* dict.get(key) with a falsy default: the value, or "" when the key is absent.
Get(e, k) == IF k \in DOMAIN e THEN e[k] ELSE ""

(***************************************************************************)
(* The inputs of a launch.                                                 *)
(***************************************************************************)

\* The handle value the authenticator stored, and one handed in through
\* popen_kwargs; both are OS handles their owner opened.
TokenValue == "tok"
KwToken == "ktok"

\* user.get_auth_state(): nothing, a state without auth_token, a value
\* pywintypes.HANDLE() rejects, a token value.
AuthStates ==
    { [present |-> FALSE, auth_token |-> None],
      [present |-> TRUE, auth_token |-> None],
      [present |-> TRUE, auth_token |-> "not-a-handle"],
      [present |-> TRUE, auth_token |-> TokenValue] }

\* The directories the launch may look at.
NotebookDir == "D:/nb"
ProfileDir == "C:/Users/u"
PublicDir == "C:/Users/Public"
CurDir == "C:/hub"
TempDir == "C:/Temp/tmp0"
KwDir == "E:/work"
Dirs == {NotebookDir, ProfileDir, PublicDir}

\* super().get_env(): the base environment of the hub.
BaseEnvs ==
    { [PATH |-> "base-path"],
      [PATH |-> "base-path", APPDATA |-> "base-appdata", WINDIR |-> "base-windir"] }

\* os.environ of the launcher.
OsEnvirons ==
    { [SYSTEMROOT |-> "C:/Windows", APPDATA |-> "hub-appdata",
       USERPROFILE |-> "C:/Users/hub", TEMP |-> "C:/Temp", PATH |-> "hub-path"],
      [WINDIR |-> "C:/Windows", TEMP |-> "C:/Temp"] }

\* win32profile.CreateEnvironmentBlock(token, False): the profile blocks.
UserEnvs ==
    { [APPDATA |-> "C:/Users/u/AppData", USERPROFILE |-> ProfileDir, PUBLIC |-> PublicDir],
      [USERPROFILE |-> ProfileDir, PUBLIC |-> PublicDir, TEMP |-> "C:/Users/u/Temp"],
      [APPDATA |-> "", USERPROFILE |-> ProfileDir],
      [PUBLIC |-> PublicDir] }

\* subprocess.DEVNULL, as a value of stdin: Popen opens the null device.
DEVNULL == "DEVNULL"

\* c.Spawner.popen_kwargs: the keys a configuration may set.
KwEnv == [PATH |-> "kw-path"]
PopenKwargs ==
    { EmptyEnv,
      [token |-> KwToken],
      [cwd |-> KwDir, env |-> KwEnv, stdin |-> DEVNULL] }

Ips == {"", "10.0.0.5"}

\* random_port(): the free port the OS gave.  Nothing in the launch reads
\* the number before start() returns it.
Ports == {9999}

\* self.cmd + self.get_args()
Cmd == <<"app", "--port=8888">>

\* The window-station and desktop objects the Access Grantor writes to.
WinSta == "winsta0"
Desktop == "default"
OtherAce == [sid |-> "S-other", mask |-> "GENERIC_READ"]

\* A launch injects at most this many failing OS calls.
MaxFaults == 2

VARIABLES
    \* configuration and surroundings
    ip, notebook_dir, popen_kwargs, auth_state, base_env, os_environ,
    \* the OS: directories the launch looked at or made, object DACLs, and the
    \* handles: those open, and the PyHANDLE wrappers that still own theirs
    disk, dacl, handles,
    \* the spawner's attributes
    port, proc, pid, server,
    \* locals of start()
    pc, cmd, env, token, env_block, user_env, cwd, exc, result,
    \* the PopenAsUser object and the locals of do_execute_child()
    popen, child,
    \* what was logged, which calls were made (in order), what
    \* CreateProcessAsUser received, and the failing calls injected so far
    log, calls, create_args, faults,
    \* other callers of setup_sacl, each at its own step, and the steps
    \* another task of the event loop took while start() was under way
    grants, other_task

vars == <<ip, notebook_dir, popen_kwargs, auth_state, base_env, os_environ,
          disk, dacl, handles, port, proc, pid, server,
          pc, cmd, env, token, env_block, user_env, cwd, exc, result, popen, child,
          log, calls, create_args, faults, grants, other_task>>

config == <<ip, notebook_dir, popen_kwargs, auth_state, base_env, os_environ>>
spawner == <<port, proc, pid, server>>
os_state == <<disk, dacl, handles>>
concurrent == <<grants, other_task>>

Log(level, msg, arg) == [level |-> level, msg |-> msg, arg |-> arg]

\* An exception: its class and what it carries.
Exc(type, arg) == [type |-> type, arg |-> arg]
NoExc == Exc(None, None)

(***************************************************************************)
(* Handles.  A PyHANDLE wrapper owns its handle until Detach(); Close()    *)
(* closes the handle and lets go of it; CloseHandle(int(h)) closes the     *)
(* handle by value and leaves the wrapper as it was.  A wrapper that is    *)
(* destroyed while it owns its handle closes it: Release for the wrappers  *)
(* that no live frame or object refers to any more.  reclosed: the handle  *)
(* values a wrapper closed when they had been closed by value before.      *)
(***************************************************************************)
Wrap(hs, h) == [hs EXCEPT !.attached = @ \cup {h}]
Opened(hs, S) == [hs EXCEPT !.open = @ \cup S]
Detach(hs, h) == [hs EXCEPT !.attached = @ \ {h}]
Close(hs, h) == [hs EXCEPT !.open = @ \ {h}, !.attached = @ \ {h}]
CLOSEHANDLE(hs, h) == [hs EXCEPT !.open = @ \ {h}]
Release(hs, S) ==
    [open |-> hs.open \ (S \cap hs.attached),
     attached |-> hs.attached \ S,
     reclosed |-> hs.reclosed \cup ((S \cap hs.attached) \ hs.open)]

\* An OS call may fail while the launch has failures left to inject.
MayFail(ok) == ok \/ faults < MaxFaults
Fault(ok) == IF ok THEN faults ELSE faults + 1

(***************************************************************************)
(* WinLocalProcessSpawner                                                  *)
(***************************************************************************)

win_env_keep == {"SYSTEMROOT", "APPDATA", "WINDIR", "USERPROFILE", "TEMP"}

Restrict(e, S) == [k \in (DOMAIN e) \cap S |-> e[k]]

\* The layers in the wrong order: the base environment over the OS-critical
\* variables.
get_env_base_wins(base, osenv) == Update(Restrict(osenv, win_env_keep), base)

\* get_env(): the base environment, then the Windows variables of os.environ.
get_env(base, osenv) == Update(base, Restrict(osenv, win_env_keep))

NoPopen ==
    [_token |-> None, args |-> <<>>, env |-> EmptyEnv, cwd |-> None, piped |-> FALSE,
     devnull |-> FALSE, use_std_handles |-> FALSE, _handle |-> None, pid |-> 0, _child_created |-> FALSE]

NoChild ==
    [created |-> None, hp |-> None, ht |-> None, pid |-> 0,
     err |-> -1, wait_result |-> None, waited_ms |-> 0, exit_code |-> -1,
     error |-> NoExc, exits |-> FALSE]

NoCreateArgs == [token |-> None, args |-> <<>>, env |-> EmptyEnv, cwd |-> None]

NoResult == [kind |-> None, ip |-> None, port |-> 0, exc |-> NoExc]

Init ==
    /\ ip \in Ips
    /\ notebook_dir \in {"", NotebookDir}
    /\ popen_kwargs \in PopenKwargs
    /\ auth_state \in AuthStates
    /\ base_env \in BaseEnvs
    /\ os_environ \in OsEnvirons
    /\ disk = [exists |-> {}, missing |-> {}]
    /\ dacl = [w \in {WinSta, Desktop} |->
                 IF w = WinSta THEN [present |-> TRUE, aces |-> <<OtherAce>>]
                               ELSE [present |-> FALSE, aces |-> <<>>]]
    /\ handles = [open |-> (IF auth_state.auth_token = TokenValue THEN {TokenValue} ELSE {})
                           \cup (IF "token" \in DOMAIN popen_kwargs THEN {KwToken} ELSE {}),
                  attached |-> {}, reclosed |-> {}]
    /\ port = 0 /\ proc = None /\ pid = 0 /\ server = [ip |-> "", port |-> 0]
    /\ pc = "start"
    /\ cmd = <<>> /\ env = EmptyEnv /\ token = None
    /\ env_block = EmptyEnv /\ user_env = EmptyEnv
    /\ cwd = None /\ exc = NoExc /\ result = NoResult
    /\ popen = NoPopen /\ child = NoChild
    /\ log = {} /\ calls = <<>> /\ create_args = NoCreateArgs /\ faults = 0
    /\ grants = <<>> /\ other_task = 0

\* start(), lines 76-89: pick the port, compose the environment and command.
Start ==
    /\ pc = "start"
    /\ \E p \in Ports : port' = p
    /\ env' = get_env(base_env, os_environ)
    /\ cmd' = Cmd
    /\ log' = log \cup {Log("info", "Spawning", Cmd[1])}
    /\ pc' = "auth"
    /\ UNCHANGED <<config, concurrent, os_state, proc, pid, server, token, env_block, user_env, cwd,
                   exc, result, popen, child, calls, create_args, faults>>

\* pywintypes.HANDLE(value) raises for a value that is no handle.
Convertible(v) == v = TokenValue

\* start(), lines 91-100: the token of the auth state, if any.
GetAuthState ==
    /\ pc = "auth"
    /\ LET tv == auth_state.auth_token
           wanted == auth_state.present /\ tv \notin {None, ""}
       IN  /\ token' = IF wanted /\ Convertible(tv) THEN tv ELSE None
           /\ handles' = IF wanted /\ Convertible(tv) THEN Wrap(handles, tv) ELSE handles
           /\ calls' = IF wanted THEN Append(calls, "HANDLE") ELSE calls
           /\ log' = IF wanted /\ ~Convertible(tv)
                     THEN log \cup {Log("warning", "Failed to create token handle", tv)}
                     ELSE log
           /\ pc' = IF wanted /\ Convertible(tv) THEN "env" ELSE "cwd"
    /\ UNCHANGED <<config, concurrent, disk, dacl, spawner, cmd, env, env_block, user_env, cwd, exc,
                   result, popen, child, create_args, faults>>

\* The block as the provider gave it, whatever it lacks.
ProfileKept(ue) == ue

\* The block with USERPROFILE replaced by PUBLIC when APPDATA is missing or
\* empty and PUBLIC is there (lines 113-117).
ProfileFallback(ue) ==
    IF Get(ue, "APPDATA") = "" /\ "PUBLIC" \in DOMAIN ue
    THEN Update(ue, [USERPROFILE |-> ue["PUBLIC"]])
    ELSE ue

\* A failure of the environment-block provider that is raised on.
env_raises(e) == e

\* start(), lines 119-121: what is left of an exception of the provider
\* once the handler has logged it.
env_except(e) == NoExc

\* start(), lines 105-121: load the profile block of the token.
LoadUserEnv ==
    /\ pc = "env"
    /\ calls' = Append(calls, "CreateEnvironmentBlock")
    /\ \/ \E ue \in UserEnvs :
            /\ env' = Update(env, ue)
            /\ env_block' = ue
            /\ user_env' = ProfileFallback(ue)
            /\ log' = IF Get(ue, "APPDATA") = ""
                      THEN log \cup {Log("warning", "APPDATA not found in user environment", None)}
                      ELSE log
            /\ faults' = faults
            /\ exc' = exc
       \/ /\ MayFail(FALSE)
          /\ faults' = Fault(FALSE)
          /\ log' = log \cup {Log("warning", "Failed to load user environment", None)}
          /\ exc' = env_except(Exc("Error", "CreateEnvironmentBlock"))
          /\ UNCHANGED <<env, env_block, user_env>>
    /\ pc' = IF exc' = NoExc THEN "cwd" ELSE "done"
    /\ result' = IF exc' = NoExc THEN result
                 ELSE [NoResult EXCEPT !.kind = "raised", !.exc = exc']
    /\ UNCHANGED <<config, concurrent, os_state, spawner, cmd, token, cwd, popen, child, create_args>>

\* A check that takes every configured path for a directory.
isdir_unchecked(path, d) == TRUE

\* os.path.isdir(path), on a disk whose directories are d.
isdir(path, d) == path \in d

\* _determine_working_directory(user_env), lines 171-209, on a disk where
\* the directories d exist, with os.getcwd() and mkdtemp() succeeding or not.
\* failed: the calls that raised.
determine_working_directory(nb, ue, d, cwdOk, tmpOk) ==
    LET up == Get(ue, "USERPROFILE")
        nbWarn == IF nb # "" /\ ~isdir(nb, d)
                  THEN {Log("warning", "Configured notebook_dir does not exist, using fallback", nb)}
                  ELSE {}
        look == (IF nb # "" THEN {nb} ELSE {}) \cup (IF up # "" THEN {up} ELSE {})
        cwdWarn == {Log("warning", "Failed to get current working directory", None)}
    IN  IF nb # "" /\ isdir(nb, d)
        THEN [dir |-> nb, raised |-> FALSE, warns |-> {}, looked |-> {nb}, made |-> {},
              failed |-> {}]
        ELSE IF up # "" /\ isdir(up, d)
        THEN [dir |-> up, raised |-> FALSE, warns |-> nbWarn, looked |-> look, made |-> {},
              failed |-> {}]
        ELSE IF cwdOk
        THEN [dir |-> CurDir, raised |-> FALSE, warns |-> nbWarn, looked |-> look,
              made |-> {}, failed |-> {}]
        ELSE IF tmpOk
        THEN [dir |-> TempDir, raised |-> FALSE,
              warns |-> nbWarn \cup cwdWarn
                        \cup {Log("warning", "Using temporary directory as working directory", TempDir)},
              looked |-> look, made |-> {TempDir}, failed |-> {"getcwd"}]
        ELSE [dir |-> None, raised |-> TRUE, warns |-> nbWarn \cup cwdWarn,
              looked |-> look, made |-> {}, failed |-> {"getcwd", "mkdtemp"}]

\* start(), line 124.  An exception of mkdtemp() leaves start() here: the
\* call is outside the try block of lines 135-155.
DetermineCwd ==
    /\ pc = "cwd"
    /\ \E d \in SUBSET Dirs, cwdOk \in BOOLEAN, tmpOk \in BOOLEAN :
         LET r == determine_working_directory(notebook_dir, user_env, d, cwdOk, tmpOk)
         IN  /\ faults + Cardinality(r.failed) <= MaxFaults
             /\ faults' = faults + Cardinality(r.failed)
             /\ cwd' = r.dir
             /\ log' = log \cup r.warns
             /\ disk' = [exists |-> (r.looked \cap d) \cup r.made, missing |-> r.looked \ d]
             /\ IF r.raised
                THEN /\ exc' = Exc("OSError", "mkdtemp")
                     /\ result' = [NoResult EXCEPT !.kind = "raised", !.exc = Exc("OSError", "mkdtemp")]
                     /\ pc' = "done"
                ELSE /\ pc' = "popen"
                     /\ UNCHANGED <<exc, result>>
    /\ UNCHANGED <<config, concurrent, dacl, handles, spawner, cmd, env, token, env_block, user_env,
                   popen, child, calls, create_args>>

(***************************************************************************)
(* PopenAsUser                                                             *)
(***************************************************************************)

PipeNames == <<"p2cread", "c2pwrite", "errwrite">>
PipeSet == {PipeNames[i] : i \in 1..Len(PipeNames)}

\* The descriptor self._devnull, when Popen opened one.
DevNull == "devnull"

\* subprocess.list2cmdline (line 297): the arguments joined by blanks, one
\* that is empty or holds a blank in double quotes.
NeedQuote(a) == a \in {"", "my app"}
QuoteArg(a) == IF NeedQuote(a) THEN "\"" \o a \o "\"" ELSE a
RECURSIVE list2cmdline(_)
list2cmdline(args) ==
    IF args = <<>> THEN ""
    ELSE IF Len(args) = 1 THEN QuoteArg(args[1])
    ELSE QuoteArg(args[1]) \o " " \o list2cmdline(Tail(args))

\* Keyword arguments in which the configured popen_kwargs have the last
\* word, on the environment too.
merge_kwargs_config_wins(tok, dir, kw, e) ==
    Update([token |-> tok, cwd |-> dir, env |-> e], kw)

\* start(), lines 126-133: the keyword arguments of PopenAsUser.  The
\* configured popen_kwargs override token and cwd; env is set last.
merge_popen_kwargs(tok, dir, kw, e) ==
    Update(Update([token |-> tok, cwd |-> dir], kw), [env |-> e])

\* PopenAsUser.__init__ hands stdin on to Popen (lines 162, 200), which
\* opens self._devnull for a stream that is DEVNULL.
uses_devnull(kw) == "stdin" \in DOMAIN kw /\ kw["stdin"] = DEVNULL

\* A grant attempted for every launch, token or not.
always_sacl(tok) == TRUE

\* do_execute_child, line 315: the SACL is set up for a token that is there.
needs_sacl(tok) == tok # None

\* PopenAsUser.__init__ (lines 197-204) up to the SACL setup of
\* do_execute_child (lines 294-312).  Popen hands do_execute_child either
\* three pipe-end handles or three times -1; where a stream is the null
\* device, Popen has opened the descriptor self._devnull for it.
PopenInit ==
    /\ pc = "popen"
    /\ LET kw == merge_popen_kwargs(token, cwd, popen_kwargs, env)
           devnull == uses_devnull(kw)
       IN  \E piped \in BOOLEAN :
             /\ devnull => piped
             /\ popen' = [NoPopen EXCEPT !._token = kw["token"],
                                         !.args = list2cmdline(cmd),
                                         !.env = kw["env"],
                                         !.cwd = kw["cwd"],
                                         !.piped = piped,
                                         !.devnull = devnull,
                                         !.use_std_handles = piped]
             /\ handles' = Opened(handles, (IF piped THEN PipeSet ELSE {})
                                            \cup (IF devnull THEN {DevNull} ELSE {}))
             /\ pc' = IF needs_sacl(kw["token"]) THEN "sacl" ELSE "create"
    /\ UNCHANGED <<config, concurrent, disk, dacl, spawner, cmd, env, token, env_block, user_env,
                   cwd, exc, result, child, log, calls, create_args, faults>>

\* win32security.GetTokenInformation(token, TokenUser): the user's SID.
Sid(tok) == "S-" \o tok

GENERIC_ACCESS == "GENERIC_ACCESS"
WINSTA_ALL == "WINSTA_ALL"
DESKTOP_ALL == "DESKTOP_ALL"

\* GetSecurityDescriptorDacl(), a fresh ACL when there is none (lines 95-98).
ReadDacl(sd) == IF sd.present THEN sd.aces ELSE <<>>

\* A dedup gone wrong: the entries of an identity that is already there are
\* taken out instead of added.
AddAcesToggling(acl, sid, mask) ==
    IF \E i \in DOMAIN acl : acl[i].sid = sid
    THEN SelectSeq(acl, LAMBDA a : a.sid # sid)
    ELSE acl \o <<[sid |-> sid, mask |-> GENERIC_ACCESS], [sid |-> sid, mask |-> mask]>>

\* A grant that adds nothing for an identity that has entries already.
AddAcesOnce(acl, sid, mask) ==
    IF \E i \in DOMAIN acl : acl[i].sid = sid
    THEN acl
    ELSE acl \o <<[sid |-> sid, mask |-> GENERIC_ACCESS], [sid |-> sid, mask |-> mask]>>

\* A grant that writes a fresh list instead of the one it read.
AddAcesReplacing(acl, sid, mask) ==
    <<[sid |-> sid, mask |-> GENERIC_ACCESS], [sid |-> sid, mask |-> mask]>>

\* The two AddAccessAllowedAce calls (lines 101-102, 135-136).
AddAces(acl, sid, mask) ==
    acl \o <<[sid |-> sid, mask |-> GENERIC_ACCESS], [sid |-> sid, mask |-> mask]>>

\* SetSecurityInfo(..., dacl, ...) (lines 105-109, 139-143).
WriteDacl(acl) == [present |-> TRUE, aces |-> acl]

\* The calls of setup_sacl that may raise, in order: for the window station
\* 1 open, 2 read, 3 and 4 add, 5 write; 6..10 the same for the desktop.
SaclCalls == 1..10

\* setup_sacl(sid), lines 65-147, with call failAt raising (0: none does).
setup_sacl(sid, d, failAt) ==
    LET ws == WriteDacl(AddAces(ReadDacl(d[WinSta]), sid, WINSTA_ALL))
        dt == WriteDacl(AddAces(ReadDacl(d[Desktop]), sid, DESKTOP_ALL))
    IN  IF failAt \in 1..5 THEN [dacl |-> d, raised |-> TRUE]
        ELSE IF failAt \in 6..10 THEN [dacl |-> [d EXCEPT ![WinSta] = ws], raised |-> TRUE]
        ELSE [dacl |-> [d EXCEPT ![WinSta] = ws, ![Desktop] = dt], raised |-> FALSE]

\* A grant failure that is raised on instead of logged.
sacl_raises(e) == e

\* do_execute_child, lines 319-320: what is left of an exception of the
\* SACL setup once the handler has logged it.
sacl_except(e) == NoExc

\* do_execute_child, lines 314-320: grant the token's user access to the
\* window station and desktop; a failure is logged and the launch goes on.
SetupSacl ==
    /\ pc = "sacl"
    /\ \/ /\ MayFail(FALSE)
          /\ faults' = Fault(FALSE)
          /\ calls' = Append(calls, "GetTokenInformation")
          /\ log' = log \cup {Log("warning", "Failed to setup SACL", None)}
          /\ dacl' = dacl
          /\ exc' = sacl_except(Exc("Error", "GetTokenInformation"))
       \/ \E failAt \in {0} \cup SaclCalls :
            LET r == setup_sacl(Sid(popen._token), dacl, failAt)
            IN  /\ MayFail(~r.raised)
                /\ faults' = Fault(~r.raised)
                /\ calls' = calls \o <<"GetTokenInformation", "setup_sacl">>
                /\ dacl' = r.dacl
                /\ log' = IF r.raised
                          THEN log \cup {Log("error", "Failed to setup SACL for user SID",
                                             Sid(popen._token)),
                                         Log("warning", "Failed to setup SACL", None)}
                          ELSE log
                /\ exc' = IF r.raised THEN sacl_except(Exc("Error", "setup_sacl")) ELSE exc
    /\ pc' = IF exc' = NoExc THEN "create" ELSE "except"
    /\ UNCHANGED <<config, concurrent, disk, handles, spawner, cmd, env, token, env_block, user_env,
                   cwd, result, popen, child, create_args>>

ChildPid == 4321

\* What CreateProcessAsUser raises when it fails.  pywin32 raises its own
\* pywintypes.error (code, function, text), which is no PermissionError; an OS
\* layer put in its place (as the tests do) may raise PermissionError.
PermissionDenied == Exc("PermissionError", "Access is denied")
WinAccessDenied == Exc("pywintypes.error", "(5, 'CreateProcessAsUser', 'Access is denied.')")
WinFileNotFound == Exc("pywintypes.error", "(2, 'CreateProcessAsUser', 'File not found.')")
AccessDenied == {PermissionDenied, WinAccessDenied}
CreateFailures == AccessDenied \cup {WinFileNotFound}

\* do_execute_child, lines 326-337: what CreateProcessAsUser is called with.
create_process_args(p) ==
    [token |-> p._token, args |-> p.args, env |-> p.env, cwd |-> p.cwd]

\* An except block that logs and does not raise again.
swallow(e) == NoExc

\* do_execute_child, lines 359-361: the exception is logged and raised again.
reraise(e) == e

\* do_execute_child, lines 323-337 and 359-361.
CreateProcess ==
    /\ pc = "create"
    /\ calls' = Append(calls, "CreateProcessAsUser")
    /\ create_args' = create_process_args(popen)
    /\ \/ /\ child' = [child EXCEPT !.created = "ok", !.hp = "hp", !.ht = "ht",
                                    !.pid = ChildPid]
          /\ handles' = Wrap(Wrap(Opened(handles, {"hp", "ht"}), "hp"), "ht")
          /\ pc' = "geterr"
          /\ UNCHANGED <<exc, log, faults>>
       \/ \E e \in CreateFailures :
            /\ MayFail(FALSE)
            /\ faults' = Fault(FALSE)
            /\ child' = [child EXCEPT !.created = e.type, !.error = e]
            /\ exc' = reraise(e)
            /\ log' = log \cup {Log("error", "Exception in CreateProcessAsUser", e.arg)}
            /\ pc' = "closepipes"
            /\ UNCHANGED handles
    /\ UNCHANGED <<config, concurrent, disk, dacl, spawner, cmd, env, token, env_block, user_env, cwd,
                   result, popen>>

ERROR_ACCESS_DENIED == 5

\* A wait that is made whatever the error code was.
always_waits(err) == TRUE

\* A conversion that does not wait for the process at all.
never_waits(err) == FALSE

\* do_execute_child, lines 341-348: the wait is in the else branch of the
\* test of the error code.
waits_after(err) == err = 0

\* do_execute_child, lines 339-346: the error code right after the call.
GetLastError ==
    /\ pc = "geterr"
    /\ calls' = Append(calls, "GetLastError")
    /\ \E e \in {0, ERROR_ACCESS_DENIED}, x \in BOOLEAN :
         /\ e # 0 => ~x
         /\ child' = [child EXCEPT !.err = e, !.exits = x]
         /\ log' = IF e # 0
                   THEN log \cup {Log("error", "Error when calling CreateProcessAsUser", popen.args)}
                   ELSE log
         /\ pc' = IF waits_after(e) THEN "wait" ELSE "closepipes"
    /\ UNCHANGED <<config, concurrent, os_state, spawner, cmd, env, token, env_block, user_env, cwd,
                   exc, result, popen, create_args, faults>>

\* The grace period of line 348, in milliseconds.
GraceMs == 1000

\* A wait without a timeout: it returns only when the process ends.
wait_unbounded(timeout_ms, exits) == exits

\* WaitForSingleObject(handle, timeout_ms) returns when the process has
\* ended or the timeout has run out.
wait_returns(timeout_ms, exits) == exits \/ timeout_ms \in Nat

\* do_execute_child, line 348: wait for the process for at most GraceMs.
\* child.exits says whether the process ends within that time.
WaitForSingleObject ==
    /\ pc = "wait"
    /\ calls' = Append(calls, "WaitForSingleObject")
    /\ \/ /\ wait_returns(GraceMs, child.exits)
          /\ child' = [child EXCEPT
                         !.wait_result = IF child.exits THEN "WAIT_OBJECT_0" ELSE "WAIT_TIMEOUT",
                         !.waited_ms = IF child.exits THEN 0 ELSE GraceMs]
          /\ pc' = IF child.exits THEN "exitcode" ELSE "closepipes"
          /\ UNCHANGED <<exc, log, faults>>
       \/ /\ MayFail(FALSE)
          /\ faults' = Fault(FALSE)
          /\ exc' = reraise(Exc("Error", "WaitForSingleObject failed"))
          /\ log' = log \cup {Log("error", "Exception in CreateProcessAsUser",
                                  "WaitForSingleObject failed")}
          /\ pc' = "closepipes"
          /\ child' = child
    /\ UNCHANGED <<config, concurrent, os_state, spawner, cmd, env, token, env_block, user_env, cwd,
                   result, popen, create_args>>

STILL_ACTIVE == 259

\* An early exit turned into an error of the launch.
early_exit_raises(code) ==
    IF code # STILL_ACTIVE THEN Exc("ChildProcessError", "exited immediately") ELSE NoExc

\* do_execute_child, lines 352-357: an exit inside the grace period is
\* logged; nothing is raised for it.
early_exit(code) == NoExc

\* do_execute_child, lines 349-357: the exit code of a process that ended.
GetExitCodeProcess ==
    /\ pc = "exitcode"
    /\ calls' = Append(calls, "GetExitCodeProcess")
    /\ \/ \E c \in {STILL_ACTIVE, 1} :
            /\ child' = [child EXCEPT !.exit_code = c]
            /\ log' = IF c # STILL_ACTIVE
                      THEN log \cup {Log("error", "Process exited immediately", popen.args)}
                      ELSE log
            /\ exc' = early_exit(c)
            /\ UNCHANGED faults
       \/ /\ MayFail(FALSE)
          /\ faults' = Fault(FALSE)
          /\ exc' = reraise(Exc("Error", "GetExitCodeProcess failed"))
          /\ log' = log \cup {Log("error", "Exception in CreateProcessAsUser",
                                  "GetExitCodeProcess failed")}
          /\ child' = child
    /\ pc' = "closepipes"
    /\ UNCHANGED <<config, concurrent, os_state, spawner, cmd, env, token, env_block, user_env, cwd,
                   result, popen, create_args>>

\* _close_pipe_handles, lines 388-399: Close() on each handle that is not
\* -1, in this order.
close_calls(piped) ==
    IF piped THEN [i \in 1..Len(PipeNames) |-> "Close:" \o PipeNames[i]] ELSE <<>>

\* A loop that gives up at the first Close() that raises.
RECURSIVE close_until_failure(_, _, _)
close_until_failure(hs, todo, bad) ==
    IF todo = <<>> \/ Head(todo) \in bad THEN hs
    ELSE close_until_failure(Close(hs, Head(todo)), Tail(todo), bad)

\* A pipe handle whose Close() raised stays open.
RECURSIVE close_all(_, _, _)
close_all(hs, todo, bad) ==
    IF todo = <<>> THEN hs
    ELSE close_all(IF Head(todo) \in bad THEN hs ELSE Close(hs, Head(todo)), Tail(todo), bad)

\* _close_pipe_handles, lines 401-406: os.close(self._devnull) if there
\* is one.
devnull_calls(devnull) == IF devnull THEN <<"os.close:devnull">> ELSE <<>>

\* What _close_pipe_handles works through, in order.
to_close(p) ==
    (IF p.piped THEN PipeNames ELSE <<>>) \o (IF p.devnull THEN <<DevNull>> ELSE <<>>)

\* A cleanup whose failing close takes the place of the pending outcome.
close_raises(e, bad) == IF bad # {} THEN Exc("OSError", "close failed") ELSE e

\* _close_pipe_handles, lines 391-394 and 402-406: an exception of a close
\* is logged in its own handler; the exception under way, if any, stays.
close_except(e, bad) == e

\* do_execute_child, lines 362-365, and _close_pipe_handles, lines 379-406:
\* the finally block of the create step; a close that raises is logged
\* and the next handle is tried.
ClosePipeHandles ==
    /\ pc = "closepipes"
    /\ calls' = calls \o close_calls(popen.piped) \o devnull_calls(popen.devnull)
    /\ \E bad \in SUBSET {to_close(popen)[i] : i \in DOMAIN to_close(popen)} :
         /\ faults + Cardinality(bad) <= MaxFaults
         /\ faults' = faults + Cardinality(bad)
         /\ handles' = close_all(handles, to_close(popen), bad)
         /\ log' = log \cup {Log("warning", "Failed to close handle", h) : h \in bad}
         /\ exc' = close_except(exc, bad)
    /\ pc' = IF exc' = NoExc THEN "convert" ELSE "except"
    /\ UNCHANGED <<config, concurrent, disk, dacl, spawner, cmd, env, token, env_block, user_env, cwd,
                   result, popen, child, create_args>>

\* do_execute_child, lines 369-373: the object keeps the process handle as an
\* int and the pid.
convert_child(p, c) ==
    [p EXCEPT !._child_created = TRUE,
              !._handle = IF c.hp # None THEN c.hp ELSE @,
              !.pid = IF c.hp # None THEN c.pid ELSE @]

\* do_execute_child, lines 367-377: hp.Detach() for the conversion, then the
\* thread handle is closed by its value; the function returns and its
\* wrappers hp and ht are gone.
Convert ==
    /\ pc = "convert"
    /\ popen' = convert_child(popen, child)
    /\ handles' = LET h1 == IF child.hp # None THEN Detach(handles, child.hp) ELSE handles
                      h2 == IF child.ht # None THEN CLOSEHANDLE(h1, child.ht) ELSE h1
                  IN  Release(h2, {child.hp, child.ht})
    /\ calls' = calls \o (IF child.hp # None THEN <<"hp.Detach">> ELSE <<>>)
                      \o (IF child.ht # None THEN <<"CloseHandle:ht">> ELSE <<>>)
    /\ pc' = "assign"
    /\ UNCHANGED <<config, concurrent, disk, dacl, spawner, cmd, env, token, env_block, user_env, cwd,
                   exc, result, child, log, create_args, faults>>

\* start(), lines 136-137.
AssignProc ==
    /\ pc = "assign"
    /\ proc' = "PopenAsUser"
    /\ pid' = popen.pid
    /\ pc' = "finally"
    /\ UNCHANGED <<config, concurrent, os_state, port, server, cmd, env, token, env_block, user_env,
                   cwd, exc, result, popen, child, log, calls, create_args, faults>>

\* shutil.which(name): the path found, or nothing.
WhichResults == {"", "C:/bin/app.exe"}

\* A log of the first argument as given, whatever which() found.
unresolved_script(found, c) == c[1]

\* start(), line 141: the path which() found, or the first argument.
resolve_script(found, c) == IF found # "" THEN found ELSE c[1]

\* start(), lines 139-147: log what PopenAsUser raised; the bare raise
\* hands on the same exception.
Except ==
    /\ pc = "except"
    /\ IF exc.type = "PermissionError"
       THEN \E w \in WhichResults :
              /\ calls' = Append(calls, "which:" \o w)
              /\ log' = log \cup {Log("error", "Permission denied trying to run",
                                      resolve_script(w, cmd))}
       ELSE /\ log' = log \cup {Log("error", "Failed to start process", exc.arg)}
            /\ calls' = calls
    /\ pc' = "finally"
    /\ UNCHANGED <<config, concurrent, os_state, spawner, cmd, env, token, env_block, user_env, cwd,
                   exc, result, popen, child, create_args, faults>>

\* start(), line 152: token.Detach().
detach_token(hs, tok) == Detach(hs, tok)

\* start(), lines 148-155: detach the token, then let the exception go on.
DetachToken ==
    /\ pc = "finally"
    /\ IF token # None
       THEN /\ calls' = Append(calls, "token.Detach")
            /\ \/ /\ handles' = detach_token(handles, token)
                  /\ UNCHANGED <<log, faults>>
               \/ /\ MayFail(FALSE)
                  /\ faults' = Fault(FALSE)
                  /\ log' = log \cup {Log("warning", "Failed to detach token", None)}
                  /\ handles' = handles
       ELSE UNCHANGED <<calls, handles, log, faults>>
    /\ IF exc = NoExc
       THEN /\ pc' = "return"
            /\ result' = result
       ELSE /\ pc' = "done"
            /\ result' = [NoResult EXCEPT !.kind = "raised", !.exc = exc]
    /\ UNCHANGED <<config, concurrent, disk, dacl, spawner, cmd, env, token, env_block, user_env, cwd,
                   exc, popen, child, create_args>>

DefaultIp == "127.0.0.1"

\* A return of self.ip as it is, empty or not.
return_value_no_default(i, p) == [ip |-> i, port |-> p]

\* start(), line 169: the pair start() returns.
return_value(i, p) == [ip |-> IF i # "" THEN i ELSE DefaultIp, port |-> p]

\* The wrappers start() leaves behind when it returns: its local token,
\* unless the retained PopenAsUser holds the same wrapper as _token.
unreferenced(tok, p) == IF tok # None /\ p._token # tok THEN {tok} ELSE {}

\* start(), lines 157-169.
Return ==
    /\ pc = "return"
    /\ handles' = Release(handles, unreferenced(token, popen))
    /\ server' = [ip |-> IF ip # "" THEN ip ELSE server.ip, port |-> port]
    /\ calls' = Append(calls, "db.commit")
    /\ result' = [NoResult EXCEPT !.kind = "returned",
                                  !.ip = return_value(ip, port).ip,
                                  !.port = return_value(ip, port).port]
    /\ pc' = "done"
    /\ UNCHANGED <<config, concurrent, disk, dacl, port, proc, pid, cmd, env, token, env_block,
                   user_env, cwd, exc, popen, child, log, create_args, faults>>

\* The caller of a start() that raised lets go of the exception: the frames
\* of start() and of PopenAsUser go with its traceback, and with them every
\* wrapper they held (self.proc was not assigned).
DropException ==
    /\ pc = "done"
    /\ result.kind = "raised"
    /\ handles' = Release(handles, handles.attached)
    /\ pc' = "dropped"
    /\ UNCHANGED <<config, concurrent, disk, dacl, spawner, cmd, env, token, env_block, user_env, cwd,
                   exc, result, popen, child, log, calls, create_args, faults>>

Next ==
    \/ Start
    \/ GetAuthState
    \/ LoadUserEnv
    \/ DetermineCwd
    \/ PopenInit
    \/ SetupSacl
    \/ CreateProcess
    \/ GetLastError
    \/ WaitForSingleObject
    \/ GetExitCodeProcess
    \/ ClosePipeHandles
    \/ Convert
    \/ AssignProc
    \/ Except
    \/ DetachToken
    \/ Return
    \/ DropException

Spec == Init /\ [][Next]_vars

\* One configuration of each kind, for the checks that follow a launch step
\* by step to its end.
SmallInit ==
    /\ Init
    /\ ip = "" /\ notebook_dir = NotebookDir
    /\ base_env = [PATH |-> "base-path"]
    /\ "SYSTEMROOT" \in DOMAIN os_environ

\* Every OS call returns: a launch that can take a step takes one.
LiveSpec == SmallInit /\ [][Next]_vars /\ WF_vars(Next)

\* How many steps the other task of the event loop is followed for.
MaxOtherSteps == 2

\* start() is a coroutine: the event loop can run another task only while
\* start() is suspended at its one await (line 92), before it was first
\* resumed, or after it ended.  PopenAsUser(...) is called in the coroutine
\* itself (line 136), not handed to an executor.
loop_free(p) == p \in {"start", "auth", "done", "dropped"}

\* Another task scheduled on the same event loop takes a step.
OtherTask ==
    /\ loop_free(pc)
    /\ other_task < MaxOtherSteps
    /\ other_task' = other_task + 1
    /\ UNCHANGED <<config, grants, os_state, spawner, pc, cmd, env, token, env_block,
                   user_env, cwd, exc, result, popen, child, log, calls, create_args, faults>>

LoopNext == Next \/ OtherTask
LoopSpec == SmallInit /\ [][LoopNext]_vars

(***************************************************************************)
(* setup_sacl, call by call, for callers that run it side by side (other   *)
(* hub processes or threads) or one after the other (launch after launch). *)
(***************************************************************************)

Grantors == {"g1", "g2"}
GrantSids == {"S-A", "S-B"}

\* How many times one caller runs setup_sacl, to its end or to a call that
\* raises.
MaxGrants == 2

\* The DACL an object may have before any grant.
InitialDacls == {[present |-> FALSE, aces |-> <<>>], [present |-> TRUE, aces |-> <<OtherAce>>]}

\* A caller outside setup_sacl.  While it is inside: the object it has
\* open, its copy of the DACL, and the DACLs as they were when it came in.
NoDacls == [o \in {WinSta, Desktop} |-> [present |-> FALSE, aces |-> <<>>]]
IdleGrant(sid) ==
    [sid |-> sid, pc |-> "idle", obj |-> None, acl |-> <<>>, before |-> NoDacls, runs |-> 0,
     failed_at |-> None, fails |-> 0]

\* The steps of setup_sacl in which a call may raise.
GrantSteps == {"open_ws", "read_ws", "add_ws", "write_ws", "open_dt", "read_dt", "add_dt", "write_dt"}

\* The object a step works on and the mask it grants there.
GrantObject(step) == IF step \in {"open_ws", "read_ws", "add_ws", "write_ws"} THEN WinSta ELSE Desktop
ObjectMask(obj) == IF obj = WinSta THEN WINSTA_ALL ELSE DESKTOP_ALL

\* Everything of a launch, which the grants leave alone.
launch == <<config, disk, handles, spawner, pc, cmd, env, token, env_block, user_env, cwd,
            exc, result, popen, child, log, calls, create_args, faults, other_task>>

\* setup_sacl(sid) is called.
GrantBegin(g) ==
    /\ grants[g].pc = "idle"
    /\ grants[g].runs + grants[g].fails < MaxGrants
    /\ grants' = [grants EXCEPT ![g].pc = "open_ws", ![g].obj = None, ![g].acl = <<>>,
                                ![g].before = dacl, ![g].failed_at = None]
    /\ UNCHANGED <<launch, dacl>>

\* OpenWindowStation (lines 81-84), OpenDesktop (lines 112-118).
OpenObject(g) ==
    /\ grants[g].pc \in {"open_ws", "open_dt"}
    /\ grants' = [grants EXCEPT ![g].obj = GrantObject(grants[g].pc),
                                ![g].pc = IF @ = "open_ws" THEN "read_ws" ELSE "read_dt"]
    /\ UNCHANGED <<launch, dacl>>

\* GetUserObjectSecurity and GetSecurityDescriptorDacl (lines 87-98,
\* 121-132): a copy of the object's DACL as it is now.
GetUserObjectSecurity(g) ==
    /\ grants[g].pc \in {"read_ws", "read_dt"}
    /\ grants' = [grants EXCEPT
                    ![g].acl = ReadDacl(dacl[grants[g].obj]),
                    ![g].pc = IF @ = "read_ws" THEN "add_ws" ELSE "add_dt"]
    /\ UNCHANGED <<launch, dacl>>

\* The two AddAccessAllowedAce calls on the copy (lines 101-102, 135-136).
AddAccessAllowedAce(g) ==
    /\ grants[g].pc \in {"add_ws", "add_dt"}
    /\ grants' = [grants EXCEPT
                    ![g].acl = AddAces(@, grants[g].sid, ObjectMask(grants[g].obj)),
                    ![g].pc = IF @ = "add_ws" THEN "write_ws" ELSE "write_dt"]
    /\ UNCHANGED <<launch, dacl>>

\* SetSecurityInfo (lines 105-109, 139-143): the copy becomes the DACL.
SetSecurityInfo(g) ==
    /\ grants[g].pc \in {"write_ws", "write_dt"}
    /\ dacl' = [dacl EXCEPT ![grants[g].obj] = WriteDacl(grants[g].acl)]
    /\ grants' = [grants EXCEPT ![g].pc = IF @ = "write_ws" THEN "open_dt" ELSE "done"]
    /\ UNCHANGED launch

\* setup_sacl returns.
GrantReturn(g) ==
    /\ grants[g].pc = "done"
    /\ grants' = [grants EXCEPT ![g].pc = "idle", ![g].runs = @ + 1]
    /\ UNCHANGED <<launch, dacl>>

\* A handler that puts the DACLs back to what they were before the call.
grant_rollback(d, before) == before

\* setup_sacl, lines 145-147: the handler logs and raises again; the DACLs
\* stay as the calls made so far left them.
grant_failure(d, before) == d

\* The call of the current step raises: the step has no effect, and
\* setup_sacl is left through its handler.
GrantFail(g) ==
    /\ grants[g].pc \in GrantSteps
    /\ dacl' = grant_failure(dacl, grants[g].before)
    /\ grants' = [grants EXCEPT ![g].failed_at = grants[g].pc, ![g].pc = "failed",
                                ![g].fails = @ + 1]
    /\ UNCHANGED launch

\* The caller has caught what setup_sacl raised (do_execute_child, lines
\* 319-320).
GrantRaised(g) ==
    /\ grants[g].pc = "failed"
    /\ grants' = [grants EXCEPT ![g].pc = "idle"]
    /\ UNCHANGED <<launch, dacl>>

GrantStep(g) ==
    \/ GrantBegin(g)
    \/ OpenObject(g)
    \/ GetUserObjectSecurity(g)
    \/ AddAccessAllowedAce(g)
    \/ SetSecurityInfo(g)
    \/ GrantReturn(g)

\* No other caller is inside setup_sacl.
Alone(g) == \A h \in Grantors \ {g} : grants[h].pc = "idle"

GrantInit ==
    /\ ip = "" /\ notebook_dir = "" /\ popen_kwargs = EmptyEnv
    /\ auth_state = [present |-> FALSE, auth_token |-> None]
    /\ base_env = EmptyEnv /\ os_environ = EmptyEnv
    /\ disk = [exists |-> {}, missing |-> {}]
    /\ dacl \in [{WinSta, Desktop} -> InitialDacls]
    /\ handles = [open |-> {}, attached |-> {}, reclosed |-> {}]
    /\ port = 0 /\ proc = None /\ pid = 0 /\ server = [ip |-> "", port |-> 0]
    /\ pc = "idle"
    /\ cmd = <<>> /\ env = EmptyEnv /\ token = None
    /\ env_block = EmptyEnv /\ user_env = EmptyEnv
    /\ cwd = None /\ exc = NoExc /\ result = NoResult
    /\ popen = NoPopen /\ child = NoChild
    /\ log = {} /\ calls = <<>> /\ create_args = NoCreateArgs /\ faults = 0
    /\ other_task = 0
    /\ grants \in [Grantors -> {IdleGrant(sid) : sid \in GrantSids}]

\* Grants whose calls interleave freely.
GrantNext == \E g \in Grantors : GrantStep(g)
GrantSpec == GrantInit /\ [][GrantNext]_vars

\* Grants one after the other.
SerialGrantNext == \E g \in Grantors : Alone(g) /\ GrantStep(g)
SerialGrantSpec == GrantInit /\ [][SerialGrantNext]_vars

\* Grants one after the other, any call of which may raise.
FailingGrantNext ==
    \E g \in Grantors : Alone(g) /\ (GrantStep(g) \/ GrantFail(g) \/ GrantRaised(g))
FailingGrantSpec == GrantInit /\ [][FailingGrantNext]_vars

(***************************************************************************)
(* Properties                                                              *)
(***************************************************************************)

Called(c) == \E i \in DOMAIN calls : calls[i] = c
Logged(level, msg) == \E l \in log : l.level = level /\ l.msg = msg
Done == pc = "done"
Returned == Done /\ result.kind = "returned"
Raised == Done /\ result.kind = "raised"
CreateFailed == child.created \in {e.type : e \in CreateFailures}
GrantFailed == Logged("warning", "Failed to setup SACL")

\* C1: once start() has made a token handle from the auth state, it calls
\* token.Detach() before it returns or raises, on every exit path.
C1_DetachOnEveryExit == (Done /\ token # None) => Called("token.Detach")

\* C2: when control is back with the caller of start(), by return or by
\* exception, the token of the auth state is still an open handle: the
\* launcher has not closed it, also when the detach was skipped or failed.
C2_TokenOpenAtReturn ==
    (Done /\ auth_state.auth_token = TokenValue) => TokenValue \in handles.open

\* C3: when CreateProcessAsUser raises, start() raises that exception to its
\* caller, and no process or thread handle of the call is open (none was
\* made, none is kept on the Popen object).
C3_CreateFailureRaises ==
    (Done /\ CreateFailed) =>
        /\ result.kind = "raised"
        /\ result.exc \in CreateFailures
        /\ result.exc = child.error
        /\ handles.open \cap {"hp", "ht"} = {}
        /\ child.hp = None /\ child.ht = None /\ popen._handle = None

C3_Witness ==
    Raised /\ child.error = WinFileNotFound /\ Called("CreateProcessAsUser")

\* C4: when CreateProcessAsUser returned handles, the launch returns a
\* result with the process handle and the pid also when the error code
\* queried after the call is not zero and when the child ended inside the
\* grace period; no error is raised in either case.
C4_ErrorCode == child.created = "ok" /\ child.err > 0
C4_EarlyExit ==
    /\ child.created = "ok"
    /\ child.wait_result = "WAIT_OBJECT_0"
    /\ child.exit_code \notin {-1, STILL_ACTIVE}
C4_DiagnosticsAdvisory ==
    /\ (C4_ErrorCode \/ C4_EarlyExit) => exc = NoExc
    /\ (Done /\ (C4_ErrorCode \/ C4_EarlyExit)) =>
          /\ result.kind = "returned"
          /\ proc = "PopenAsUser"
          /\ popen._handle = child.hp /\ child.hp \in handles.open
          /\ popen.pid = ChildPid /\ pid = ChildPid

C4_Witness == Returned /\ C4_EarlyExit /\ Logged("error", "Process exited immediately")

NoAuthToken == pc \notin {"start", "auth"} /\ token = None

\* The environment without a profile block, key by key.
BasePlusCritical(e) ==
    /\ DOMAIN e = (DOMAIN base_env) \cup ((DOMAIN os_environ) \cap win_env_keep)
    /\ \A k \in DOMAIN e :
         e[k] = IF k \in win_env_keep /\ k \in DOMAIN os_environ THEN os_environ[k]
                ELSE base_env[k]

C6_Rest ==
    /\ ~Called("CreateEnvironmentBlock")
    /\ Called("CreateProcessAsUser") => BasePlusCritical(create_args.env)
    /\ user_env = EmptyEnv
    /\ cwd \in {None, notebook_dir, CurDir, TempDir}
    /\ (Done /\ child.created = "ok" /\ exc = NoExc) =>
          result.kind = "returned" /\ pid = ChildPid

\* C6, as claimed: in a launch without a token from the auth state the
\* Access Grantor and the environment-block provider are never invoked, the
\* child environment is the base environment overlaid with the OS-critical
\* variables, the working directory is resolved without a profile
\* directory, and a process that was created is returned with its pid.
C6_NoTokenNoGrant ==
    NoAuthToken =>
        /\ ~Called("GetTokenInformation") /\ ~Called("setup_sacl")
        /\ C6_Rest

\* C6, amended: the same, but the Access Grantor stays uninvoked only if
\* popen_kwargs hands in no token either.
C6_NoTokenNoGrantUnlessKwToken ==
    NoAuthToken =>
        /\ "token" \notin DOMAIN popen_kwargs =>
              ~Called("GetTokenInformation") /\ ~Called("setup_sacl")
        /\ C6_Rest

C6_Witness ==
    /\ Returned /\ NoAuthToken /\ auth_state.auth_token = "not-a-handle"
    /\ "token" \notin DOMAIN popen_kwargs
    /\ pid = ChildPid /\ cwd = CurDir

\* C7: every one of SYSTEMROOT, APPDATA, WINDIR, USERPROFILE, TEMP that is
\* set in os.environ is in the environment CreateProcessAsUser receives, with
\* the value of os.environ unless the profile block has the key, whose value
\* then wins; every key has the value of the last of base, OS-critical and
\* profile that sets it.
C7_EnvLayers ==
    Called("CreateProcessAsUser") =>
        LET e == create_args.env
            crit == (DOMAIN os_environ) \cap win_env_keep
        IN  /\ \A k \in crit :
                 /\ k \in DOMAIN e
                 /\ e[k] = IF k \in DOMAIN env_block THEN env_block[k] ELSE os_environ[k]
            /\ DOMAIN e = (DOMAIN base_env) \cup crit \cup (DOMAIN env_block)
            /\ \A k \in DOMAIN e :
                 e[k] = IF k \in DOMAIN env_block THEN env_block[k]
                        ELSE IF k \in crit THEN os_environ[k]
                        ELSE base_env[k]

\* One critical variable comes from os.environ over the base value, another
\* is overridden by the profile block.
C7_Witness ==
    /\ Called("CreateProcessAsUser")
    /\ "APPDATA" \in (DOMAIN base_env) \cap (DOMAIN os_environ)
    /\ "APPDATA" \notin DOMAIN env_block
    /\ create_args.env["APPDATA"] = os_environ["APPDATA"]
    /\ "TEMP" \in DOMAIN env_block
    /\ create_args.env["TEMP"] = env_block["TEMP"]
    /\ env_block["TEMP"] # os_environ["TEMP"]

\* C8: the working directory is the first match of: the configured
\* directory if it exists; the profile directory if it exists; the current
\* directory if getcwd() gave it; a temporary directory made by mkdtemp(),
\* which then exists.  A configured or profile directory that does not exist
\* is never the result.
CwdResolved == pc \notin {"start", "auth", "env", "cwd"} /\ cwd # None
C8_CwdPriorityChain ==
    CwdResolved =>
        LET up == Get(user_env, "USERPROFILE")
            nbOk == notebook_dir # "" /\ notebook_dir \in disk.exists
            upOk == up # "" /\ up \in disk.exists
            cwdOk == ~Logged("warning", "Failed to get current working directory")
        IN  /\ nbOk => cwd = notebook_dir
            /\ (~nbOk /\ upOk) => cwd = up
            /\ (~nbOk /\ ~upOk /\ cwdOk) => cwd = CurDir
            /\ (~nbOk /\ ~upOk /\ ~cwdOk) => cwd = TempDir /\ TempDir \in disk.exists
            /\ cwd \notin disk.missing
            /\ (notebook_dir # "" /\ cwd # notebook_dir) => notebook_dir \in disk.missing
            /\ (up # "" /\ cwd \notin {notebook_dir, up}) => up \in disk.missing

\* The configured and the profile directory are both missing, getcwd()
\* failed, and the temporary directory was made.
C8_Witness ==
    /\ CwdResolved /\ cwd = TempDir /\ TempDir \in disk.exists
    /\ disk.missing = {NotebookDir, PublicDir}

\* C9: a start() that returns gives (ip or 127.0.0.1, the port picked when
\* the call began); self.proc is the process just launched, self.pid its pid,
\* and server.port the returned port.
C9_ReturnValue ==
    Returned =>
        /\ result.ip = (IF ip = "" THEN "127.0.0.1" ELSE ip)
        /\ result.port = port /\ port \in Ports
        /\ server.port = result.port
        /\ proc = "PopenAsUser" /\ popen._child_created
        /\ pid = popen.pid /\ pid = child.pid /\ pid = ChildPid

C9_Witness == Returned /\ ip = "" /\ result.ip = "127.0.0.1" /\ result.port = 9999

\* C10: when a token is there and GetTokenInformation or a step of
\* setup_sacl fails, the failure is logged and CreateProcessAsUser is still
\* called, with the token, command line, environment and working directory
\* that start() and popen_kwargs determine, whatever the grant did.
ExpectedCreateArgs ==
    [token |-> IF "token" \in DOMAIN popen_kwargs THEN popen_kwargs["token"] ELSE token,
     args |-> "app --port=8888",
     env |-> env,
     cwd |-> IF "cwd" \in DOMAIN popen_kwargs THEN popen_kwargs["cwd"] ELSE cwd]
C10_GrantFailureProceeds ==
    /\ pc \in {"sacl", "create"} => exc = NoExc
    /\ (Called("GetTokenInformation") /\ pc # "create") =>
          /\ Called("CreateProcessAsUser")
          /\ create_args = ExpectedCreateArgs
          /\ create_args.token # None
    /\ (Called("GetTokenInformation") /\ ~Called("setup_sacl")) => GrantFailed
    /\ GrantFailed => Called("GetTokenInformation")

C10_Witness ==
    /\ Returned /\ GrantFailed /\ Called("setup_sacl")
    /\ Logged("error", "Failed to setup SACL for user SID")
    /\ create_args.token = TokenValue

\* The environment-block provider failed for the token.
EnvFailed == Logged("warning", "Failed to load user environment")

\* C11: when CreateEnvironmentBlock fails for a token, the failure is logged
\* as a warning and not raised: start() goes on to the working directory and
\* the launch, the environment is the base environment overlaid with the
\* OS-critical variables, with no key of a profile block, and the working
\* directory is resolved without a profile directory.
C11_EnvFailureProceeds ==
    /\ (Called("CreateEnvironmentBlock") /\ env_block = EmptyEnv) => EnvFailed
    /\ EnvFailed =>
         /\ token # None /\ Called("CreateEnvironmentBlock")
         /\ env_block = EmptyEnv /\ user_env = EmptyEnv
         /\ BasePlusCritical(env)
         /\ Called("CreateProcessAsUser") => BasePlusCritical(create_args.env)
         /\ CwdResolved => cwd \in ({notebook_dir} \ {""}) \cup {CurDir, TempDir}
         /\ pc \in {"cwd", "popen"} => exc = NoExc
         /\ (pc \in {"done", "dropped"} /\ ~Called("CreateProcessAsUser")) =>
               result.exc = Exc("OSError", "mkdtemp")

C11_Witness ==
    /\ Returned /\ EnvFailed /\ Called("CreateProcessAsUser")
    /\ cwd = CurDir /\ create_args.env = get_env(base_env, os_environ)
    /\ "APPDATA" \in DOMAIN base_env

\* The masks the entries of a DACL grant to an identity.
Rights(sd, sid) == {sd.aces[i].mask : i \in {j \in DOMAIN sd.aces : sd.aces[j].sid = sid}}

\* The entries a DACL had, none for an object without a DACL.
Entries(sd) == IF sd.present THEN sd.aces ELSE <<>>

\* The two entries of a grant, in the order they are added.
GrantEntries(sid, obj) ==
    <<[sid |-> sid, mask |-> GENERIC_ACCESS], [sid |-> sid, mask |-> ObjectMask(obj)]>>

\* C12: after one or more grants for an identity, run one after the other,
\* the window-station DACL grants it exactly the generic and the
\* window-station rights and the desktop DACL exactly the generic and the
\* desktop rights, however often it was granted.
C12_GrantIdempotentInEffect ==
    \A g \in Grantors :
        (grants[g].runs >= 1 \/ grants[g].pc = "done") =>
            /\ Rights(dacl[WinSta], grants[g].sid) = {GENERIC_ACCESS, WINSTA_ALL}
            /\ Rights(dacl[Desktop], grants[g].sid) = {GENERIC_ACCESS, DESKTOP_ALL}

\* A second grant for the same identity went through: its entries are there
\* twice, its rights are what they were.
C12_Witness ==
    /\ grants["g1"].runs = 2 /\ grants["g1"].pc = "idle"
    /\ Len(SelectSeq(dacl[WinSta].aces, LAMBDA a : a.sid = grants["g1"].sid)) >= 4
    /\ Rights(dacl[WinSta], grants["g1"].sid) = {GENERIC_ACCESS, WINSTA_ALL}

\* C13: a grant that has written an object's DACL left there the entries
\* the object had before the grant, in their order, followed by the generic
\* and the object-specific entry for the identity; an object that had no
\* DACL has one with just the two entries.
C13_GrantOnlyAppends ==
    \A g \in Grantors :
        /\ grants[g].pc \in {"open_dt", "read_dt", "add_dt", "write_dt", "done"} =>
              dacl[WinSta] = [present |-> TRUE,
                              aces |-> Entries(grants[g].before[WinSta])
                                       \o GrantEntries(grants[g].sid, WinSta)]
        /\ grants[g].pc = "done" =>
              dacl[Desktop] = [present |-> TRUE,
                               aces |-> Entries(grants[g].before[Desktop])
                                        \o GrantEntries(grants[g].sid, Desktop)]

\* A grant is through where the window station had an entry of someone else
\* and the desktop had no DACL at all.
C13_Witness ==
    \E g \in Grantors :
        /\ grants[g].pc = "done"
        /\ grants[g].before[WinSta] = [present |-> TRUE, aces |-> <<OtherAce>>]
        /\ ~grants[g].before[Desktop].present
        /\ dacl[WinSta].aces[1] = OtherAce /\ Len(dacl[WinSta].aces) = 3
        /\ Len(dacl[Desktop].aces) = 2

\* C19: once two callers with different identities have both completed a
\* grant whose calls interleaved in any order, both DACLs hold the entries
\* of both identities.
C19_ConcurrentGrantsKeepBoth ==
    ((\A g \in Grantors : grants[g].runs >= 1 /\ grants[g].pc = "idle")
      /\ grants["g1"].sid # grants["g2"].sid) =>
        \A g \in Grantors :
            /\ Rights(dacl[WinSta], grants[g].sid) = {GENERIC_ACCESS, WINSTA_ALL}
            /\ Rights(dacl[Desktop], grants[g].sid) = {GENERIC_ACCESS, DESKTOP_ALL}

\* do_execute_child is over, by return or by exception.
ExecuteChildOver == pc \in {"except", "assign", "finally", "return", "done"}

\* C14: once do_execute_child is over, by return or by exception, a thread
\* handle that CreateProcessAsUser returned is closed, and it is not kept on
\* the PopenAsUser object.
C14_ThreadHandleClosed ==
    (ExecuteChildOver /\ child.ht # None) =>
        /\ child.ht \notin handles.open
        /\ popen._handle # child.ht

\* C15: once the create step was reached and do_execute_child is over, a
\* Close() was attempted on each of the three pipe-end handles that were
\* supplied, whatever the create call, the error query and the wait did; a
\* handle is then closed unless its Close() failed, which was logged.
C15_PipeHandlesClosed ==
    (Called("CreateProcessAsUser") /\ (ExecuteChildOver \/ pc \in {"convert", "dropped"})) =>
        IF popen.piped
        THEN \A h \in PipeSet :
               /\ Called("Close:" \o h)
               /\ h \in handles.open => Log("warning", "Failed to close handle", h) \in log
        ELSE \A h \in PipeSet : ~Called("Close:" \o h)

\* The create call raised, the first Close() failed, the other two handles
\* were closed all the same.
C15_Witness ==
    /\ Raised /\ CreateFailed /\ popen.piped
    /\ handles.open \cap PipeSet = {"p2cread"}
    /\ Called("Close:errwrite")

\* C16: every launch comes to an end, start() returning or raising, and the
\* wait for the process never takes longer than the grace period.
C16_LaunchTerminates ==
    /\ <>(pc = "done" /\ result.kind \in {"returned", "raised"})
    /\ [](child.waited_ms <= GraceMs)

\* The process did not end, the wait ran its full time, start() returned.
C16_Witness ==
    /\ Returned /\ ~child.exits
    /\ child.wait_result = "WAIT_TIMEOUT" /\ child.waited_ms = GraceMs

\* Where in the sequence of calls a call was made.
Idx(c) == {i \in DOMAIN calls : calls[i] = c}

\* Every call of b was preceded by a call of a.
Before(a, b) == \A j \in Idx(b) : \E i \in Idx(a) : i < j

\* The calls that convert the process handle and close the thread handle.
Conversion == {"hp.Detach", "CloseHandle:ht"}

\* The part of the order that does not involve the wait: grant once and
\* before the create call, wait only after it, detach only after it, and the
\* token open and owned by its wrapper until the detach.
C17_OrderOfGrantCreateDetach ==
    /\ \A c \in {"GetTokenInformation", "setup_sacl"} :
         /\ Cardinality(Idx(c)) <= 1
         /\ \A i \in Idx(c), j \in Idx("CreateProcessAsUser") : i < j
    /\ Cardinality(Idx("CreateProcessAsUser")) <= 1
    /\ Called("WaitForSingleObject") =>
         child.created = "ok" /\ Before("CreateProcessAsUser", "WaitForSingleObject")
    /\ Before("CreateProcessAsUser", "token.Detach")
    /\ (token # None /\ ~Called("token.Detach") /\ pc # "dropped") =>
         token \in handles.open /\ token \in handles.attached

C20_LoopNotBlocked ==
    (pc \in {"create", "geterr", "wait", "exitcode"} /\ other_task < MaxOtherSteps) =>
        ENABLED OtherTask

\* What the steps before the cleanup made of the launch: the exception of
\* the create call, of the wait or of the exit-code query, or none.
PrimaryError ==
    IF child.error # NoExc THEN child.error
    ELSE IF Log("error", "Exception in CreateProcessAsUser", "WaitForSingleObject failed") \in log
    THEN Exc("Error", "WaitForSingleObject failed")
    ELSE IF Log("error", "Exception in CreateProcessAsUser", "GetExitCodeProcess failed") \in log
    THEN Exc("Error", "GetExitCodeProcess failed")
    ELSE NoExc

CloseFailed(h) == Log("warning", "Failed to close handle", h) \in log
CloseAttempted(h) == IF h = DevNull THEN Called("os.close:devnull") ELSE Called("Close:" \o h)

\* C21: once the cleanup of the create step has run, a close was attempted
\* on every pipe-end handle and on the devnull descriptor, each one is
\* closed unless its close failed, which was then logged, and the launch is
\* where it would be had every close succeeded: the pending exception is
\* the one of the create call, the wait or the exit-code query (or none),
\* and start() raises exactly that one or returns its result.
C21_CleanupKeepsOutcome ==
    (pc \in {"except", "convert", "assign", "finally", "return", "done", "dropped"}
       /\ Called("CreateProcessAsUser")) =>
        /\ exc = PrimaryError
        /\ \A i \in DOMAIN to_close(popen) :
             LET h == to_close(popen)[i]
             IN  /\ CloseAttempted(h)
                 /\ h \in handles.open <=> CloseFailed(h)
        /\ pc \in {"done", "dropped"} =>
             result = IF PrimaryError = NoExc
                      THEN [kind |-> "returned", ip |-> IF ip = "" THEN DefaultIp ELSE ip,
                            port |-> port, exc |-> NoExc]
                      ELSE [NoResult EXCEPT !.kind = "raised", !.exc = PrimaryError]

\* The create call raised, the close of the devnull descriptor failed, the
\* pipe handles were closed, and start() raised what the create call raised.
C21_Witness ==
    /\ Raised /\ CreateFailed /\ popen.devnull
    /\ CloseFailed(DevNull)
    /\ handles.open \cap (PipeSet \cup {DevNull}) = {DevNull}
    /\ result.exc = child.error

\* C22: when the working directory is not the configured one, a warning
\* was logged for every tier that was passed over: for a configured
\* directory that does not exist, for a profile directory that does not
\* exist (a warning that names it), and for a current directory that could
\* not be had.
C22_EveryFallbackLogged ==
    CwdResolved =>
        LET up == Get(user_env, "USERPROFILE")
        IN  /\ (notebook_dir # "" /\ cwd # notebook_dir) =>
                  Log("warning", "Configured notebook_dir does not exist, using fallback",
                      notebook_dir) \in log
            /\ (up # "" /\ cwd \notin {notebook_dir, up}) =>
                  \E l \in log : l.level = "warning" /\ l.arg = up
            /\ cwd = TempDir =>
                  Logged("warning", "Failed to get current working directory")

\* The provider gave a block for the token, and it has no APPDATA or an
\* empty one.
ProfileLacksAppData ==
    /\ pc \notin {"start", "auth", "env"}
    /\ Called("CreateEnvironmentBlock") /\ ~EnvFailed
    /\ Get(env_block, "APPDATA") = ""

\* C23: when the profile block of a token has no APPDATA or an empty one, a
\* warning is logged (and only then); the PUBLIC directory of the block, if
\* it has one, takes the place of USERPROFILE as the profile directory the
\* working directory is resolved from, and without one the block is used as
\* it is; nothing is raised for it, and the launch goes on to the create
\* call unless no working directory at all could be had.
C23_PublicForProfile ==
    /\ Logged("warning", "APPDATA not found in user environment") => ProfileLacksAppData
    /\ ProfileLacksAppData =>
         /\ token # None
         /\ Logged("warning", "APPDATA not found in user environment")
         /\ IF "PUBLIC" \in DOMAIN env_block
            THEN /\ Get(user_env, "USERPROFILE") = env_block["PUBLIC"]
                 /\ \A k \in DOMAIN env_block \ {"USERPROFILE"} : user_env[k] = env_block[k]
            ELSE user_env = env_block
         /\ CwdResolved =>
              LET nbOk == notebook_dir # "" /\ notebook_dir \in disk.exists
                  cand == Get(user_env, "USERPROFILE")
              IN  /\ (~nbOk /\ cand \in disk.exists) => cwd = cand
                  /\ ("PUBLIC" \in DOMAIN env_block /\ cwd # notebook_dir) =>
                        cwd \in {env_block["PUBLIC"], CurDir, TempDir}
         /\ pc \in {"cwd", "popen", "sacl", "create"} => exc = NoExc
         /\ (pc \in {"done", "dropped"} /\ ~Called("CreateProcessAsUser")) =>
              result.exc = Exc("OSError", "mkdtemp")

\* The block has a user profile and a PUBLIC directory but no APPDATA: the
\* process was created in the PUBLIC directory.
C23_Witness ==
    /\ Returned /\ ProfileLacksAppData
    /\ "APPDATA" \notin DOMAIN env_block
    /\ Get(env_block, "USERPROFILE") = ProfileDir /\ Get(env_block, "PUBLIC") = PublicDir
    /\ cwd = PublicDir /\ create_args.cwd = PublicDir

\* C24: once the thread handle was closed by its value, no wrapper owns
\* that value any more, and none has closed it a second time.
C24_ThreadHandleReleasedOnce ==
    Called("CloseHandle:ht") =>
        /\ child.ht \notin handles.attached
        /\ child.ht \notin handles.reclosed

\* C25: when a call of a window-station step of setup_sacl raises (open,
\* read, append, write), both DACLs are as they were before the call of
\* setup_sacl and the desktop was never opened; when a call of a desktop
\* step raises, the desktop DACL is as it was and the window-station DACL
\* holds the entries it had followed by the two of this grant.
C25_FailedGrantBounded ==
    \A g \in Grantors :
        grants[g].pc = "failed" =>
            IF GrantObject(grants[g].failed_at) = WinSta
            THEN /\ dacl = grants[g].before
                 /\ grants[g].obj # Desktop
            ELSE /\ dacl[Desktop] = grants[g].before[Desktop]
                 /\ dacl[WinSta] = [present |-> TRUE,
                                    aces |-> Entries(grants[g].before[WinSta])
                                             \o GrantEntries(grants[g].sid, WinSta)]

\* The write of the desktop DACL raised: the window station has the two
\* entries of the grant, the desktop has no DACL as before.
C25_Witness ==
    \E g \in Grantors :
        /\ grants[g].pc = "failed" /\ grants[g].failed_at = "write_dt"
        /\ ~dacl[Desktop].present
        /\ Len(dacl[WinSta].aces) = Len(Entries(grants[g].before[WinSta])) + 2

\* How many entries a DACL holds for an identity.
Count(sd, sid) == Len(SelectSeq(Entries(sd), LAMBDA a : a.sid = sid))

\* How many grants for an identity have written the DACL of an object: the
\* completed runs and the run under way, if its write is through.
Written(sid, obj) ==
    LET through(g) == IF obj = WinSta
                      THEN grants[g].pc \in {"open_dt", "read_dt", "add_dt", "write_dt", "done"}
                      ELSE grants[g].pc = "done"
        n(g) == IF grants[g].sid # sid THEN 0
                ELSE grants[g].runs + (IF through(g) THEN 1 ELSE 0)
    IN  n("g1") + n("g2")

\* C26: with grants run one after the other and none failing, each DACL
\* holds two entries for an identity per grant made for it, 2n after n
\* grants, and a grant that is through has made each DACL two entries
\* longer than it was, also when it already held entries for the identity.
C26_TwoEntriesPerGrant ==
    /\ \A sid \in GrantSids, obj \in {WinSta, Desktop} :
         Count(dacl[obj], sid) = 2 * Written(sid, obj)
    /\ \A g \in Grantors, obj \in {WinSta, Desktop} :
         grants[g].pc = "done" =>
            Len(Entries(dacl[obj])) = Len(Entries(grants[g].before[obj])) + 2

\* Both callers have granted the same identity as often as they may: each
\* DACL holds two entries for it per grant of either caller.
C26_Witness ==
    /\ grants["g1"].sid = grants["g2"].sid
    /\ \A g \in Grantors : grants[g].runs = MaxGrants /\ grants[g].pc = "idle"
    /\ \A obj \in {WinSta, Desktop} : Count(dacl[obj], grants["g1"].sid) = 4 * MaxGrants

\* C27: the environment CreateProcessAsUser receives is the one start()
\* composed, the base environment and OS-critical variables overlaid with
\* the profile block as the provider gave it: popen_kwargs replace the token
\* and the working directory but not the environment, and where PUBLIC was
\* put in place of USERPROFILE for the working directory, the USERPROFILE of
\* the child is still the one of the block (or of the layers below it).
C27_EnvNotOverridden ==
    Called("CreateProcessAsUser") =>
        LET composed == Update(get_env(base_env, os_environ), env_block)
        IN  /\ create_args.env = env
            /\ create_args.env = composed
            /\ "env" \in DOMAIN popen_kwargs => create_args.env # popen_kwargs["env"]
            /\ "token" \in DOMAIN popen_kwargs => create_args.token = popen_kwargs["token"]
            /\ "cwd" \in DOMAIN popen_kwargs => create_args.cwd = popen_kwargs["cwd"]
            /\ Get(create_args.env, "USERPROFILE") =
                  IF "USERPROFILE" \in DOMAIN env_block THEN env_block["USERPROFILE"]
                  ELSE IF "USERPROFILE" \in DOMAIN os_environ THEN os_environ["USERPROFILE"]
                  ELSE Get(base_env, "USERPROFILE")
            /\ "PUBLIC" \in DOMAIN env_block =>
                  Get(create_args.env, "PUBLIC") = env_block["PUBLIC"]

\* popen_kwargs set an environment and a working directory, and PUBLIC took
\* the place of USERPROFILE: the child has the working directory of
\* popen_kwargs, the composed environment and the USERPROFILE of the block.
C27_Witness ==
    /\ Called("CreateProcessAsUser")
    /\ "env" \in DOMAIN popen_kwargs /\ create_args.cwd = KwDir
    /\ create_args.env["PATH"] = "base-path"
    /\ Get(user_env, "USERPROFILE") = PublicDir
    /\ Get(create_args.env, "USERPROFILE") = ProfileDir

====
